---- MODULE Spec2Model ----
(***************************************************************************)
(* LocalBanker (rtbkit/core/banker/local_banker.cc): the local budget      *)
(* cache of a bidding component and its three periodic protocols against   *)
(* the remote ledger (reauthorize, spendUpdate, lazy account registration).*)
(*                                                                         *)
(* The remote ledger and the HTTP transport are the environment: a request *)
(* that was issued stays in flight until the environment answers it with   *)
(* any status and any body.  The account store (GoAccounts, go_account.cc) *)
(* is not part of the sources at hand; its operations are modelled from    *)
(* section 4.1 of the specification.                                       *)
(***************************************************************************)
EXTENDS Integers, Sequences, FiniteSets, TLC

\* ------------------------------------------------------------- bounds
MaxBalance == 2       \* balances the ledger hands out are 0..MaxBalance
MaxDebt == 1          \* win is explored while the balance stays >= -MaxDebt
MaxPrice == 2         \* bid and win prices are 1..MaxPrice
MaxForced == 2        \* forced retries explored per protocol
MaxRegistrations == 3 \* unanswered addAccount requests per key
MaxInFlight == 1      \* unanswered replaceAccount and setRate requests per name
MaxRecords == 1       \* records in one reauthorize response
MaxUnanswered == 1    \* unanswered requests per endpoint beside the mutex

\* ---------------------------------------------------------- constants
DefaultSpendRate == 100000   \* spendRate(MicroUSD(100000))
SkipLimit == 3               \* "Skipped > 3" of reauthorize and spendUpdate
StatusOK == 200

ROUTER == "Router"
POST_AUCTION == "PostAuction"

\* An AccountKey is the sequence of its segments; toString joins them with ":".
accountSuffix == "sfx"
BaseKeys == {<<"c1">>, <<"c2">>}
BareName == <<"c1">>

\* key.toString() + ":" + accountSuffix, parsed back into an AccountKey
FullKey(key) == key \o <<accountSuffix>>

FullKeys == {FullKey(k) : k \in BaseKeys}

\* the account names requests are made for: the keys this instance registers,
\* and one name that lacks the instance's suffix
Names == FullKeys \cup {BareName}

\* the account names the remote ledger puts in the responses of reauthorize and
\* of spendUpdate: a key this instance registers and the same name without suffix
LedgerNames == {FullKey(BareName), BareName}

Prices == 1..MaxPrice
Balances == 0..MaxBalance
Rates == {DefaultSpendRate, DefaultSpendRate + 1}

\* body of POST /accounts and GET /accounts/{name}: a canonical account record
\* (its name and balance), or a body addFromJsonString/replaceFromJsonString rejects
Malformed == [wellFormed |-> FALSE]

AccountBodies ==
    {Malformed} \cup
    {[wellFormed |-> TRUE, name |-> n, balance |-> b] : n \in Names, b \in Balances}

\* body of POST /reauthorize/1: unparsable, or a sequence of at most MaxRecords
\* records {name, balance, rate}
ReauthorizeRecords ==
    {[name |-> n, balance |-> b, rate |-> r] :
        n \in LedgerNames, b \in Balances, r \in Rates}

Unparsable == [parsable |-> FALSE]

\* body of POST /spendupdate: unparsable, or a mapping account name -> status string
SpendStatuses == {"no need", "success", "desync"}

SpendUpdateBodies ==
    {Unparsable} \cup
    {[parsable |-> TRUE, result |-> m] :
        m \in UNION {[D -> SpendStatuses] : D \in SUBSET LedgerNames}}

Threads == {"caller", "loop"}

Protocols == {"reauthorize", "spendUpdate"}

VARIABLES
    type,                    \* GoAccountType of the instance
    accounts,                \* accounts.accounts: AccountKey -> account record
    uninitializedAccounts,   \* the pending-registration set
    reauthorizeInProgress,
    reauthorizeSkipped,
    spendUpdateInProgress,
    spendUpdateSkipped,
    http,                    \* requests issued through httpClient and not yet answered
    pc,                      \* where each thread is inside addAccountImpl / the sweep
    implKey,                 \* the key argument of the addAccountImpl a thread runs
    tempUninitialized,       \* the sweep's local set, keys not yet visited
    jsonAccounts,            \* records of a reauthorize response still to loop over
    mutex,                   \* this->mutex: "free" or the thread that holds it
    \* observers: what has happened so far, kept beside the program's state
    ticks,                   \* per periodic protocol, what its timer has done
    ledger,                  \* per registered key, the bids admitted against its balance
    sent,                    \* per registered key, who posted its unanswered registrations
    hits,                    \* the counters the latest response handler recorded
    heal,                    \* the keys given to addAccount; whether the ledger recovered
    swept                    \* what the latest registration sweep took and did

progVars == <<type, accounts, uninitializedAccounts,
              reauthorizeInProgress, reauthorizeSkipped,
              spendUpdateInProgress, spendUpdateSkipped,
              http, pc, implKey, tempUninitialized, jsonAccounts, mutex>>

vars == <<progVars, ticks, ledger, sent, hits, heal, swept>>

guardVars == <<reauthorizeInProgress, reauthorizeSkipped,
               spendUpdateInProgress, spendUpdateSkipped>>
threadVars == <<pc, implKey, tempUninitialized, jsonAccounts, mutex>>

\* ------------------------------------------------------ account store
\* Of an account record the balance is kept.  The accumulated spend and the rate
\* of a record are not: nothing in local_banker.cc reads them back (spendUpdate
\* sends the records to the ledger, setRate sends the instance's own spendRate).
NewAccount(balance) == [balance |-> balance]

exists(accts, key) == key \in DOMAIN accts

put(accts, key, rec) ==
    [k \in DOMAIN accts \cup {key} |-> IF k = key THEN rec ELSE accts[k]]

accounts_bid(accts, key, bidPrice) ==
    IF ~exists(accts, key) THEN [ok |-> FALSE, accounts |-> accts]
    ELSE IF accts[key].balance - bidPrice >= 0
    THEN [ok |-> TRUE, accounts |-> [accts EXCEPT ![key].balance = @ - bidPrice]]
    ELSE [ok |-> FALSE, accounts |-> accts]

\* reserved is the estimate debited by the bid this win settles
accounts_win(accts, key, reserved, winPrice) ==
    IF ~exists(accts, key) THEN [ok |-> FALSE, accounts |-> accts]
    ELSE [ok |-> TRUE,
          accounts |-> [accts EXCEPT ![key].balance = @ + (reserved - winPrice)]]

accumulateBalance(accts, key, newBalance) ==
    IF exists(accts, key)
    THEN [delta |-> newBalance - accts[key].balance,
          accounts |-> [accts EXCEPT ![key].balance = newBalance]]
    ELSE [delta |-> newBalance, accounts |-> put(accts, key, NewAccount(newBalance))]

addFromJsonString(accts, body) ==
    IF ~body.wellFormed THEN [ok |-> FALSE, accounts |-> accts]
    ELSE IF exists(accts, body.name) THEN [ok |-> TRUE, accounts |-> accts]
    ELSE [ok |-> TRUE, accounts |-> put(accts, body.name, NewAccount(body.balance))]

replaceFromJsonString(accts, body) ==
    IF ~body.wellFormed THEN [ok |-> FALSE, accounts |-> accts]
    ELSE [ok |-> TRUE, accounts |-> put(accts, body.name, NewAccount(body.balance))]

\* ---------------------------------------------------------- transport
NoRequests == [n \in Names |-> 0]

\* payloads: the bodies of the registration requests that are in flight
NoHttp == [reauthorize |-> 0, spendUpdate |-> 0, addAccount |-> NoRequests,
           replaceAccount |-> NoRequests, setRate |-> NoRequests, payloads |-> {}]

post(h, endpoint) == [h EXCEPT ![endpoint] = @ + 1]
postFor(h, endpoint, key) == [h EXCEPT ![endpoint][key] = @ + 1]
answered(h, endpoint) == [h EXCEPT ![endpoint] = @ - 1]
answeredFor(h, endpoint, key) == [h EXCEPT ![endpoint][key] = @ - 1]

\* a registration request and its body; the body leaves with the last answer
postAccount(h, key, payload) ==
    [h EXCEPT !.addAccount[key] = @ + 1, !.payloads = @ \cup {payload}]

answeredAccount(h, key) ==
    [h EXCEPT !.addAccount[key] = @ - 1,
              !.payloads = IF h.addAccount[key] = 1
                           THEN {q \in @ : q.accountName # key} ELSE @]

\* ------------------------------------------------- hot path: bid and win
\* a variant of bid that debits every account that exists, whatever its balance
bidUnchecked(accts, key, bidPrice) ==
    LET fullKey == FullKey(key)
    IN  IF exists(accts, fullKey)
        THEN [canBid |-> TRUE,
              accounts |-> [accts EXCEPT ![fullKey].balance = @ - bidPrice]]
        ELSE [canBid |-> FALSE, accounts |-> accts]

bid(accts, key, bidPrice) ==
    LET r == accounts_bid(accts, FullKey(key), bidPrice)
    IN  [canBid |-> r.ok, accounts |-> r.accounts]

win(accts, key, reserved, winPrice) ==
    LET r == accounts_win(accts, FullKey(key), reserved, winPrice)
    IN  [winAccounted |-> r.ok, accounts |-> r.accounts]

Bid(key, bidPrice) ==
    /\ accounts' = bid(accounts, key, bidPrice).accounts
    /\ UNCHANGED <<type, uninitializedAccounts, guardVars, http, threadVars>>

Win(key, reserved, winPrice) ==
    /\ accounts' = win(accounts, key, reserved, winPrice).accounts
    /\ UNCHANGED <<type, uninitializedAccounts, guardVars, http, threadVars>>

\* ---------------------------------------------------------------- threads
\* The timers and the httpClient are sources of the one message loop (init:
\* addSource, addPeriodic): ticks, the sweep and the response handlers run on
\* the thread "loop", one at a time, each only when the loop is idle.  bid, win
\* and addAccount run on the threads of their callers and come between the
\* loop's steps wherever the loop does not hold a mutex.

\* --------------------------------------------- addAccount / addAccountImpl
\* A thread inside addAccountImpl(key) is at "erase" or "insert": it has evaluated
\* accounts.exists(key) and not yet entered the critical section it chose.  The
\* steps that touch only the thread's own data (building fullKey, taking the next
\* key of tempUninitialized) are part of the step that follows them, and the post
\* is part of the step that inserted the key.
Branch(key) == IF exists(accounts, key) THEN "erase" ELSE "insert"

\* where the thread goes when addAccountImpl returns
Return(t, temp) == IF t = "loop" /\ temp # {} THEN "sweep" ELSE "idle"

\* addAccount(key), up to and including accounts.exists(fullKey)
addAccount(key) ==
    /\ pc["caller"] = "idle"
    /\ implKey' = [implKey EXCEPT !["caller"] = FullKey(key)]
    /\ pc' = [pc EXCEPT !["caller"] = Branch(FullKey(key))]
    /\ UNCHANGED <<type, accounts, uninitializedAccounts, guardVars, http,
                   tempUninitialized, jsonAccounts, mutex>>

\* the key exists: erase it from the pending set under the mutex and return
addAccountImpl_erase(t) ==
    /\ pc[t] = "erase"
    /\ uninitializedAccounts' = uninitializedAccounts \ {implKey[t]}
    /\ pc' = [pc EXCEPT ![t] = Return(t, tempUninitialized)]
    /\ UNCHANGED <<type, accounts, guardVars, http, implKey, tempUninitialized,
                   jsonAccounts, mutex>>

\* a variant of the role tag that does not look at the role
accountTypeRouter(t) == "Router"

\* payload["accountType"], the switch on type
accountType(t) == IF t = ROUTER THEN "Router" ELSE "PostAuction"

\* the body of POST /accounts
AccountPayload(key) == [accountName |-> key, accountType |-> accountType(type)]

\* a variant of the insertion that posts only for a key that was not pending
addAccountImpl_insertOnce(t) ==
    /\ pc[t] = "insert"
    /\ uninitializedAccounts' = uninitializedAccounts \cup {implKey[t]}
    /\ http' = IF implKey[t] \in uninitializedAccounts THEN http
               ELSE postAccount(http, implKey[t], AccountPayload(implKey[t]))
    /\ pc' = [pc EXCEPT ![t] = Return(t, tempUninitialized)]
    /\ UNCHANGED <<type, accounts, guardVars, implKey, tempUninitialized, jsonAccounts, mutex>>

\* the key does not exist: insert it into the pending set under the mutex, then
\* httpClient->post("/accounts", ...)
addAccountImpl_insert(t) ==
    /\ pc[t] = "insert"
    /\ uninitializedAccounts' = uninitializedAccounts \cup {implKey[t]}
    /\ http' = postAccount(http, implKey[t], AccountPayload(implKey[t]))
    /\ pc' = [pc EXCEPT ![t] = Return(t, tempUninitialized)]
    /\ UNCHANGED <<type, accounts, guardVars, implKey, tempUninitialized, jsonAccounts, mutex>>

\* a variant of the handler that takes the key out of the pending set whatever
\* the status
addAccountResponseErasing(key, status, body) ==
    /\ pc["loop"] = "idle"
    /\ http.addAccount[key] > 0
    /\ http' = answeredAccount(http, key)
    /\ accounts' = IF status # StatusOK THEN accounts
                   ELSE addFromJsonString(accounts, body).accounts
    /\ uninitializedAccounts' = uninitializedAccounts \ {key}
    /\ UNCHANGED <<type, guardVars, threadVars>>

\* onResponse of addAccountImpl, which captured key
addAccountResponse(key, status, body) ==
    /\ pc["loop"] = "idle"
    /\ http.addAccount[key] > 0
    /\ http' = answeredAccount(http, key)
    /\ IF status # StatusOK
       THEN UNCHANGED <<accounts, uninitializedAccounts>>
       ELSE /\ accounts' = addFromJsonString(accounts, body).accounts
            /\ uninitializedAccounts' = uninitializedAccounts \ {key}
    /\ UNCHANGED <<type, guardVars, threadVars>>

\* the counters onResponse of addAccountImpl records
addAccountHits(accts, status, body) ==
    IF status # StatusOK THEN {"addAccount.failure"}
    ELSE IF addFromJsonString(accts, body).ok THEN {"addAccount.success"}
    ELSE {"addAccount.error", "addAccount.success"}

\* -------------------------------------------- initializeAccountsPeriodic
\* swap(uninitializedAccounts, tempUninitialized) under the mutex
sweep_swap ==
    /\ pc["loop"] = "idle"
    /\ tempUninitialized' = uninitializedAccounts
    /\ uninitializedAccounts' = {}
    /\ pc' = [pc EXCEPT !["loop"] = Return("loop", uninitializedAccounts)]
    /\ UNCHANGED <<type, accounts, guardVars, http, implKey, jsonAccounts, mutex>>

\* for (auto &key : tempUninitialized) addAccountImpl(key), up to and including
\* accounts.exists(key); an unordered_set yields its keys in any order
sweep_next ==
    /\ pc["loop"] = "sweep"
    /\ \E key \in tempUninitialized :
        /\ tempUninitialized' = tempUninitialized \ {key}
        /\ implKey' = [implKey EXCEPT !["loop"] = key]
        /\ pc' = [pc EXCEPT !["loop"] = Branch(key)]
    /\ UNCHANGED <<type, accounts, uninitializedAccounts, guardVars, http, jsonAccounts, mutex>>

\* ------------------------------------------------------- replaceAccount
\* the body of replaceAccount(key): one GET /accounts/{key}
replaceAccount(h, key) == postFor(h, "replaceAccount", key)

\* a variant of the handler that keeps a record the store already holds
replaceAccountResponseKeeping(key, status, body) ==
    /\ pc["loop"] = "idle"
    /\ http.replaceAccount[key] > 0
    /\ http' = answeredFor(http, "replaceAccount", key)
    /\ IF status # StatusOK
       THEN UNCHANGED accounts
       ELSE accounts' = addFromJsonString(accounts, body).accounts
    /\ UNCHANGED <<type, uninitializedAccounts, guardVars, threadVars>>

replaceAccountResponse(key, status, body) ==
    /\ pc["loop"] = "idle"
    /\ http.replaceAccount[key] > 0
    /\ http' = answeredFor(http, "replaceAccount", key)
    /\ IF status # StatusOK
       THEN UNCHANGED accounts
       ELSE accounts' = replaceFromJsonString(accounts, body).accounts
    /\ UNCHANGED <<type, uninitializedAccounts, guardVars, threadVars>>

replaceAccountHits(accts, status, body) ==
    IF status # StatusOK THEN {"updateOutOfSync.failure"}
    ELSE IF replaceFromJsonString(accts, body).ok THEN {"updateOutOfSync.success"}
    ELSE {"replaceAccount.error", "updateOutOfSync.success"}

\* -------------------------------------------------------------- setRate
\* the body of setRate(key): one POST /accounts/{key}/rate
setRate(h, key) == postFor(h, "setRate", key)

setRateResponse(key, status) ==
    /\ pc["loop"] = "idle"
    /\ http.setRate[key] > 0
    /\ http' = answeredFor(http, "setRate", key)
    /\ UNCHANGED <<type, accounts, uninitializedAccounts, guardVars, threadVars>>

setRateHits(status) ==
    IF status # StatusOK THEN {"setRate.failure"} ELSE {"setRate.success"}

\* ------------------------------------------ variants of the overlap guard
\* compares the counter before incrementing it: the forced retry comes a tick late
OverlapGuardLate(inProgress, skipped) ==
    IF inProgress /\ ~(skipped > SkipLimit)
    THEN [proceed |-> FALSE, inProgress |-> inProgress, skipped |-> skipped + 1]
    ELSE [proceed |-> TRUE, inProgress |-> TRUE, skipped |-> 0]

\* never looks at the flag: every tick posts
OverlapGuardOpen(inProgress, skipped) ==
    [proceed |-> TRUE, inProgress |-> TRUE, skipped |-> 0]

\* never forces a retry: a set flag always skips
OverlapGuardStrict(inProgress, skipped) ==
    IF inProgress
    THEN [proceed |-> FALSE, inProgress |-> inProgress, skipped |-> skipped + 1]
    ELSE [proceed |-> TRUE, inProgress |-> TRUE, skipped |-> 0]

\* forces the retry but leaves the counter where the forcing tick put it
OverlapGuardKeepsCount(inProgress, skipped) ==
    IF inProgress /\ ~(skipped + 1 > SkipLimit)
    THEN [proceed |-> FALSE, inProgress |-> inProgress, skipped |-> skipped + 1]
    ELSE [proceed |-> TRUE, inProgress |-> TRUE,
          skipped |-> IF inProgress THEN skipped + 1 ELSE 0]

\* -------------------------------------------- the overlap guard of a tick
\* The head of spendUpdate and of reauthorize: what a tick does with the flag and
\* the skip counter, and whether it goes on to post a request.
OverlapGuard(inProgress, skipped) ==
    IF inProgress /\ ~(skipped + 1 > SkipLimit)
    THEN [proceed |-> FALSE, inProgress |-> inProgress, skipped |-> skipped + 1]
    ELSE [proceed |-> TRUE, inProgress |-> TRUE, skipped |-> 0]

\* ---------------------------------------------------------- spendUpdate
\* a variant whose timer is armed whatever the role
spendUpdateAnyRole ==
    LET g == OverlapGuard(spendUpdateInProgress, spendUpdateSkipped)
    IN  /\ pc["loop"] = "idle"
        /\ spendUpdateInProgress' = g.inProgress
        /\ spendUpdateSkipped' = g.skipped
        /\ http' = IF g.proceed THEN post(http, "spendUpdate") ELSE http
        /\ UNCHANGED <<type, accounts, uninitializedAccounts,
                       reauthorizeInProgress, reauthorizeSkipped, threadVars>>

spendUpdate ==
    LET g == OverlapGuard(spendUpdateInProgress, spendUpdateSkipped)
    IN  /\ type = POST_AUCTION
        /\ pc["loop"] = "idle"
        /\ spendUpdateInProgress' = g.inProgress
        /\ spendUpdateSkipped' = g.skipped
        /\ http' = IF g.proceed THEN post(http, "spendUpdate") ELSE http
        /\ UNCHANGED <<type, accounts, uninitializedAccounts,
                       reauthorizeInProgress, reauthorizeSkipped, threadVars>>

\* a variant that reloads every entry but the "no need" ones
OutOfSyncOrSuccess(result) == {n \in DOMAIN result : result[n] # "no need"}

\* the names of a spendUpdate response whose status asks for a reload
OutOfSync(result) ==
    {n \in DOMAIN result : result[n] # "no need" /\ result[n] # "success"}

\* the loop over the response: replaceAccount(key) for every out-of-sync entry
RECURSIVE ReplaceAll(_, _)
ReplaceAll(h, keys) ==
    IF keys = {} THEN h
    ELSE LET key == CHOOSE k \in keys : TRUE
         IN  ReplaceAll(replaceAccount(h, key), keys \ {key})

\* a variant of the handler that leaves the flag set when the status is not 200
spendUpdateResponseLate(status, body) ==
    /\ pc["loop"] = "idle"
    /\ http.spendUpdate > 0
    /\ spendUpdateInProgress' = IF status = StatusOK THEN FALSE ELSE spendUpdateInProgress
    /\ LET h == answered(http, "spendUpdate")
       IN  http' = IF status = StatusOK /\ body.parsable
                   THEN ReplaceAll(h, OutOfSync(body.result)) ELSE h
    /\ UNCHANGED <<type, accounts, uninitializedAccounts, spendUpdateSkipped,
                   reauthorizeInProgress, reauthorizeSkipped, threadVars>>

spendUpdateResponse(status, body) ==
    /\ pc["loop"] = "idle"
    /\ http.spendUpdate > 0
    /\ spendUpdateInProgress' = FALSE
    /\ LET h == answered(http, "spendUpdate")
       IN  http' = IF status = StatusOK /\ body.parsable
                   THEN ReplaceAll(h, OutOfSync(body.result)) ELSE h
    /\ UNCHANGED <<type, accounts, uninitializedAccounts, spendUpdateSkipped,
                   reauthorizeInProgress, reauthorizeSkipped, threadVars>>

spendUpdateHits(status, body) ==
    IF status # StatusOK THEN {"spendUpdate.failure"}
    ELSE IF ~body.parsable THEN {"spendUpdate.jsonParsingError"}
    ELSE {"spendUpdate.success"}

\* ---------------------------------------------------------- reauthorize
reauthorize ==
    LET g == OverlapGuard(reauthorizeInProgress, reauthorizeSkipped)
    IN  /\ type = ROUTER
        /\ pc["loop"] = "idle"
        /\ reauthorizeInProgress' = g.inProgress
        /\ reauthorizeSkipped' = g.skipped
        /\ http' = IF g.proceed THEN post(http, "reauthorize") ELSE http
        /\ UNCHANGED <<type, accounts, uninitializedAccounts,
                       spendUpdateInProgress, spendUpdateSkipped, threadVars>>

\* a variant of the handler that clears the flag only when the body parses
reauthorizeResponseLate(status, parsable, records) ==
    /\ pc["loop"] = "idle"
    /\ http.reauthorize > 0
    /\ reauthorizeInProgress' = IF status = StatusOK /\ ~parsable
                                THEN reauthorizeInProgress ELSE FALSE
    /\ http' = answered(http, "reauthorize")
    /\ IF status = StatusOK /\ parsable /\ records > 0
       THEN /\ jsonAccounts' = records
            /\ pc' = [pc EXCEPT !["loop"] = "reauthorize"]
       ELSE UNCHANGED <<jsonAccounts, pc>>
    /\ UNCHANGED <<type, accounts, uninitializedAccounts, reauthorizeSkipped,
                   spendUpdateInProgress, spendUpdateSkipped, implKey, tempUninitialized, mutex>>

\* onResponse of reauthorize up to the loop over jsonAccounts; records is the
\* number of records of a body that parses
reauthorizeResponse(status, parsable, records) ==
    /\ pc["loop"] = "idle"
    /\ http.reauthorize > 0
    /\ reauthorizeInProgress' = FALSE
    /\ http' = answered(http, "reauthorize")
    /\ IF status = StatusOK /\ parsable /\ records > 0
       THEN /\ jsonAccounts' = records
            /\ pc' = [pc EXCEPT !["loop"] = "reauthorize"]
       ELSE UNCHANGED <<jsonAccounts, pc>>
    /\ UNCHANGED <<type, accounts, uninitializedAccounts, reauthorizeSkipped,
                   spendUpdateInProgress, spendUpdateSkipped, implKey, tempUninitialized, mutex>>

\* a variant of the turn that also posts setRate for a rate equal to spendRate
reauthorize_recordAtOrAbove(rec) ==
    LET key == rec.name
        acc == accumulateBalance(accounts, key, rec.balance)
    IN  /\ pc["loop"] = "reauthorize"
        /\ accounts' = acc.accounts
        /\ http' = IF rec.rate >= DefaultSpendRate THEN setRate(http, key) ELSE http
        /\ jsonAccounts' = jsonAccounts - 1
        /\ pc' = [pc EXCEPT !["loop"] = IF jsonAccounts = 1 THEN "idle" ELSE "reauthorize"]
        /\ UNCHANGED <<type, uninitializedAccounts, guardVars, implKey, tempUninitialized, mutex>>

\* one turn of the loop over jsonAccounts: accounts.accumulateBalance(key, newBalance)
\* and, if (rate > spendRate.value), setRate(key)
reauthorize_record(rec) ==
    LET key == rec.name
        acc == accumulateBalance(accounts, key, rec.balance)
    IN  /\ pc["loop"] = "reauthorize"
        /\ accounts' = acc.accounts
        /\ http' = IF rec.rate > DefaultSpendRate THEN setRate(http, key) ELSE http
        /\ jsonAccounts' = jsonAccounts - 1
        /\ pc' = [pc EXCEPT !["loop"] = IF jsonAccounts = 1 THEN "idle" ELSE "reauthorize"]
        /\ UNCHANGED <<type, uninitializedAccounts, guardVars, implKey, tempUninitialized, mutex>>

\* the counter onResponse of reauthorize records before it returns
reauthorizeHits(status, parsable) ==
    IF status # StatusOK THEN {"reauthorize.failure"}
    ELSE IF ~parsable THEN {"reautorize.jsonParsingError"}
    ELSE {"reauthorize.success"}

\* ------------------------------------------------- the remote's answers
\* a status other than 200 carries no body the handlers read
AccountReplies ==
    {[status |-> 500, body |-> Malformed]} \cup
    {[status |-> StatusOK, body |-> b] : b \in AccountBodies}

\* POST /accounts and GET /accounts/{name} answer with the record of the
\* account they were asked for, when they answer with a record at all
AccountRepliesFor(key) ==
    {r \in AccountReplies : r.body.wellFormed => r.body.name = key}

ReauthorizeReplies ==
    {[status |-> 500, parsable |-> FALSE, records |-> 0],
     [status |-> StatusOK, parsable |-> FALSE, records |-> 0]} \cup
    {[status |-> StatusOK, parsable |-> TRUE, records |-> n] : n \in 0..MaxRecords}

SpendUpdateReplies ==
    {[status |-> 500, body |-> Unparsable]} \cup
    {[status |-> StatusOK, body |-> b] : b \in SpendUpdateBodies}

\* --------------------------------------------------------------- bounds
InFlight(h) ==
    /\ h.reauthorize <= MaxForced + 1
    /\ h.spendUpdate <= MaxForced + 1
    /\ \A n \in Names : /\ h.addAccount[n] <= MaxRegistrations
                        /\ h.replaceAccount[n] <= MaxInFlight
                        /\ h.setRate[n] <= MaxInFlight

InRange(accts) == \A k \in DOMAIN accts : accts[k].balance \in -MaxDebt..MaxBalance

\* the part of the state space that is explored
Bounded ==
    /\ InFlight(http)
    /\ InRange(accounts)
    /\ \A p \in Protocols : ticks[p].forced <= MaxForced

\* ------------------------------------------------------------ observers
\* ticks[p], the history of protocol p's timer:
\*   forced  forced retries (a post made while the flag was set, after SkipLimit
\*           ticks in a row that posted nothing) since p last had nothing in flight
\*   since   ticks since the last tick that found the flag clear; -1 once a
\*           response has been processed after that tick, and at the start
\*   issued  whether the latest tick posted a request
\*   dry     ticks in a row, up to the latest, that posted nothing
NoTicks == [forced |-> 0, since |-> -1, issued |-> FALSE, dry |-> 0]

TickSeen(p, wasInProgress, posted) ==
    LET t == ticks[p]
        forcedNow == wasInProgress /\ posted /\ t.dry = 3
    IN  ticks' = [ticks EXCEPT ![p] =
            [forced |-> IF forcedNow THEN t.forced + 1 ELSE t.forced,
             since  |-> IF ~wasInProgress THEN 0
                        ELSE IF t.since < 0 THEN t.since ELSE t.since + 1,
             issued |-> posted,
             dry    |-> IF posted THEN 0 ELSE t.dry + 1]]

ResponseSeen(p) ==
    ticks' = [ticks EXCEPT ![p].since = -1,
                           ![p].forced = IF http'[p] = 0 THEN 0 ELSE @]

\* ledger[k]: base is the balance of account k when something other than an
\* admitted bid last changed it, admitted the prices of the bids admitted since
NoLedger == [k \in FullKeys |-> [base |-> 0, admitted |-> 0]]

BidSeen(key, bidPrice) ==
    ledger' = IF bid(accounts, key, bidPrice).canBid
              THEN [ledger EXCEPT ![FullKey(key)].admitted = @ + bidPrice]
              ELSE ledger

BalanceSeen ==
    ledger' = [k \in FullKeys |->
        IF k \in DOMAIN accounts' /\ (k \notin DOMAIN accounts \/ accounts'[k] # accounts[k])
        THEN [base |-> accounts'[k].balance, admitted |-> 0]
        ELSE ledger[k]]

\* sent[k]: of the registration requests for k in flight, how many were posted
\* by addAccount calls and how many by sweeps since the last response for k was
\* processed, and how many were already in flight then
NoSent == [k \in FullKeys |-> [before |-> 0, calls |-> 0, sweeps |-> 0]]

InsertSeen(t) ==
    sent' = [sent EXCEPT ![implKey[t]] =
                IF t = "caller" THEN [@ EXCEPT !.calls = @ + 1]
                ELSE [@ EXCEPT !.sweeps = @ + 1]]

AnswerSeen(key) ==
    sent' = [sent EXCEPT ![key] =
                [before |-> http'.addAccount[key], calls |-> 0, sweeps |-> 0]]

\* heal: the keys addAccount was called with, and whether the remote ledger has
\* recovered (from then on it answers every registration with status 200 and
\* the record of the account asked for)
NoHeal == [requested |-> {}, recovered |-> FALSE]

GoodReply(key, r) ==
    r.status = StatusOK /\ r.body.wellFormed /\ r.body.name = key

Recover ==
    /\ ~heal.recovered
    /\ heal' = [heal EXCEPT !.recovered = TRUE]
    /\ UNCHANGED progVars

\* swept, of the registration sweep that is running or ran last: the keys it
\* took from the pending set, those of them it found in the store when it came
\* to them, those it posted a registration for, and the keys calls of
\* addAccount put into the pending set while it was running
NoSwept == [taken |-> {}, found |-> {}, resent |-> {}, added |-> {}]

Sweeping == pc["loop"] \in {"sweep", "erase", "insert"}

SwapSwept == swept' = [NoSwept EXCEPT !.taken = uninitializedAccounts]

NextSwept ==
    swept' = IF pc'["loop"] = "erase"
             THEN [swept EXCEPT !.found = @ \cup {implKey'["loop"]}]
             ELSE swept

InsertSwept(t) ==
    swept' = IF t = "loop" THEN [swept EXCEPT !.resent = @ \cup {implKey[t]}]
             ELSE IF Sweeping THEN [swept EXCEPT !.added = @ \cup {implKey[t]}]
             ELSE swept

\* ------------------------------------- the critical sections, step by step
\* The actions above take a critical section as one step.  The ones below split
\* the functions that post after a critical section at the points where the
\* lock_guard is constructed and where it leaves its scope, so that the state in
\* which the request is handed to httpClient can be looked at.

\* std::lock_guard guard(this->mutex) of either branch of addAccountImpl
addAccountImpl_lock(t) ==
    /\ pc[t] \in {"erase", "insert"}
    /\ mutex = "free"
    /\ mutex' = t
    /\ pc' = [pc EXCEPT ![t] = IF pc[t] = "erase" THEN "erasing" ELSE "inserting"]
    /\ UNCHANGED <<type, accounts, uninitializedAccounts, guardVars, http,
                   implKey, tempUninitialized, jsonAccounts>>

\* the erase branch: erase, return, the guard leaves its scope
addAccountImpl_erasing(t) ==
    /\ pc[t] = "erasing"
    /\ uninitializedAccounts' = uninitializedAccounts \ {implKey[t]}
    /\ mutex' = "free"
    /\ pc' = [pc EXCEPT ![t] = Return(t, tempUninitialized)]
    /\ UNCHANGED <<type, accounts, guardVars, http, implKey, tempUninitialized,
                   jsonAccounts>>

\* a variant whose guard lives to the end of the function
addAccountImpl_insertingHeld(t) ==
    /\ pc[t] = "inserting"
    /\ uninitializedAccounts' = uninitializedAccounts \cup {implKey[t]}
    /\ pc' = [pc EXCEPT ![t] = "post"]
    /\ UNCHANGED <<type, accounts, guardVars, http, implKey, tempUninitialized,
                   jsonAccounts, mutex>>

\* the else branch: insert, the guard leaves its scope
addAccountImpl_inserting(t) ==
    /\ pc[t] = "inserting"
    /\ uninitializedAccounts' = uninitializedAccounts \cup {implKey[t]}
    /\ mutex' = "free"
    /\ pc' = [pc EXCEPT ![t] = "post"]
    /\ UNCHANGED <<type, accounts, guardVars, http, implKey, tempUninitialized,
                   jsonAccounts>>

\* httpClient->post("/accounts", cbs, payload, ...)
addAccountImpl_post(t) ==
    /\ pc[t] = "post"
    /\ http' = postAccount(http, implKey[t], AccountPayload(implKey[t]))
    /\ pc' = [pc EXCEPT ![t] = Return(t, tempUninitialized)]
    /\ UNCHANGED <<type, accounts, uninitializedAccounts, guardVars, implKey,
                   tempUninitialized, jsonAccounts, mutex>>

\* where the loop is inside reauthorize or spendUpdate once the guard let it by
AtLock(p) == IF p = "reauthorize" THEN "reauthorize.lock" ELSE "spendUpdate.lock"
AtPayload(p) == IF p = "reauthorize" THEN "reauthorize.payload" ELSE "spendUpdate.payload"
AtPost(p) == IF p = "reauthorize" THEN "reauthorize.post" ELSE "spendUpdate.post"

\* the head of reauthorize: the overlap guard
reauthorize_guard ==
    LET g == OverlapGuard(reauthorizeInProgress, reauthorizeSkipped)
    IN  /\ type = ROUTER
        /\ pc["loop"] = "idle"
        /\ reauthorizeInProgress' = g.inProgress
        /\ reauthorizeSkipped' = g.skipped
        /\ pc' = [pc EXCEPT !["loop"] = IF g.proceed THEN AtLock("reauthorize") ELSE "idle"]
        /\ UNCHANGED <<type, accounts, uninitializedAccounts, http,
                       spendUpdateInProgress, spendUpdateSkipped,
                       implKey, tempUninitialized, jsonAccounts, mutex>>

\* the head of spendUpdate: the overlap guard
spendUpdate_guard ==
    LET g == OverlapGuard(spendUpdateInProgress, spendUpdateSkipped)
    IN  /\ type = POST_AUCTION
        /\ pc["loop"] = "idle"
        /\ spendUpdateInProgress' = g.inProgress
        /\ spendUpdateSkipped' = g.skipped
        /\ pc' = [pc EXCEPT !["loop"] = IF g.proceed THEN AtLock("spendUpdate") ELSE "idle"]
        /\ UNCHANGED <<type, accounts, uninitializedAccounts, http,
                       reauthorizeInProgress, reauthorizeSkipped,
                       implKey, tempUninitialized, jsonAccounts, mutex>>

\* std::lock_guard guard(this->mutex) around the loop that builds the payload
payload_lock(p) ==
    /\ pc["loop"] = AtLock(p)
    /\ mutex = "free"
    /\ mutex' = "loop"
    /\ pc' = [pc EXCEPT !["loop"] = AtPayload(p)]
    /\ UNCHANGED <<type, accounts, uninitializedAccounts, guardVars, http,
                   implKey, tempUninitialized, jsonAccounts>>

\* the payload is built from accounts.accounts, the guard leaves its scope
payload_built(p) ==
    /\ pc["loop"] = AtPayload(p)
    /\ mutex' = "free"
    /\ pc' = [pc EXCEPT !["loop"] = AtPost(p)]
    /\ UNCHANGED <<type, accounts, uninitializedAccounts, guardVars, http,
                   implKey, tempUninitialized, jsonAccounts>>

\* httpClient->post("/reauthorize/1", ...), httpClient->post("/spendupdate", ...)
payload_post(p) ==
    /\ pc["loop"] = AtPost(p)
    /\ http' = post(http, p)
    /\ pc' = [pc EXCEPT !["loop"] = "idle"]
    /\ UNCHANGED <<type, accounts, uninitializedAccounts, guardVars,
                   implKey, tempUninitialized, jsonAccounts, mutex>>

\* ---------------------------------------------------------------- Init
\* the state the constructor leaves
InitProgram ==
    /\ type \in {ROUTER, POST_AUCTION}
    /\ accounts = <<>>
    /\ uninitializedAccounts = {}
    /\ reauthorizeInProgress = FALSE
    /\ reauthorizeSkipped = 0
    /\ spendUpdateInProgress = FALSE
    /\ spendUpdateSkipped = 0
    /\ http = NoHttp
    /\ pc = [t \in Threads |-> "idle"]
    /\ implKey = [t \in Threads |-> <<>>]
    /\ tempUninitialized = {}
    /\ jsonAccounts = 0
    /\ mutex = "free"

Init ==
    /\ InitProgram
    /\ ticks = [p \in Protocols |-> NoTicks]
    /\ ledger = NoLedger
    /\ sent = NoSent
    /\ hits = {}
    /\ heal = NoHeal
    /\ swept = NoSwept

\* ------------------------------------------------------ the whole program
Step(act) == act /\ UNCHANGED <<ticks, ledger, sent, hits, heal, swept>> /\ Bounded'

Next ==
    \/ \E key \in BaseKeys, price \in Prices : Step(Bid(key, price))
    \/ \E key \in BaseKeys, reserved \in Prices, price \in Prices :
          Step(Win(key, reserved, price))
    \/ \E key \in BaseKeys : Step(addAccount(key))
    \/ \E t \in Threads : Step(addAccountImpl_erase(t))
    \/ \E t \in Threads : Step(addAccountImpl_insert(t))
    \/ \E key \in FullKeys : \E r \in AccountRepliesFor(key) :
          Step(addAccountResponse(key, r.status, r.body))
    \/ Step(sweep_swap)
    \/ Step(sweep_next)
    \/ Step(spendUpdate)
    \/ \E r \in SpendUpdateReplies : Step(spendUpdateResponse(r.status, r.body))
    \/ Step(reauthorize)
    \/ \E r \in ReauthorizeReplies :
          Step(reauthorizeResponse(r.status, r.parsable, r.records))
    \/ \E rec \in ReauthorizeRecords : Step(reauthorize_record(rec))
    \/ \E key \in Names : \E r \in AccountRepliesFor(key) :
          Step(replaceAccountResponse(key, r.status, r.body))
    \/ \E key \in Names, status \in {StatusOK, 500} : Step(setRateResponse(key, status))

Spec == Init /\ [][Next]_vars

\* -------------------- the periodic protocols and the requests they trigger
PeriodicStep(act, seen) ==
    act /\ seen /\ UNCHANGED <<ledger, sent, hits, heal, swept>> /\ Bounded'

NextPeriodic ==
    \/ PeriodicStep(reauthorize,
          TickSeen("reauthorize", reauthorizeInProgress,
                   http'.reauthorize # http.reauthorize))
    \/ \E r \in ReauthorizeReplies :
          PeriodicStep(reauthorizeResponse(r.status, r.parsable, r.records),
                       ResponseSeen("reauthorize"))
    \/ \E rec \in ReauthorizeRecords :
          PeriodicStep(reauthorize_record(rec), UNCHANGED ticks)
    \/ PeriodicStep(spendUpdate,
          TickSeen("spendUpdate", spendUpdateInProgress,
                   http'.spendUpdate # http.spendUpdate))
    \/ \E r \in SpendUpdateReplies :
          PeriodicStep(spendUpdateResponse(r.status, r.body), ResponseSeen("spendUpdate"))
    \/ \E key \in Names : \E r \in AccountRepliesFor(key) :
          PeriodicStep(replaceAccountResponse(key, r.status, r.body), UNCHANGED ticks)
    \/ \E key \in Names, status \in {StatusOK, 500} :
          PeriodicStep(setRateResponse(key, status), UNCHANGED ticks)

SpecPeriodic == Init /\ [][NextPeriodic]_vars

\* ------------------------------------------------------- lazy registration
RegistrationStep(act, seen) ==
    act /\ seen /\ UNCHANGED <<ticks, ledger, hits, heal, swept>> /\ Bounded'

NextRegistration ==
    \/ \E key \in BaseKeys : RegistrationStep(addAccount(key), UNCHANGED sent)
    \/ \E t \in Threads : RegistrationStep(addAccountImpl_erase(t), UNCHANGED sent)
    \/ \E t \in Threads : RegistrationStep(addAccountImpl_insert(t), InsertSeen(t))
    \/ \E key \in FullKeys : \E r \in AccountRepliesFor(key) :
          RegistrationStep(addAccountResponse(key, r.status, r.body), AnswerSeen(key))
    \/ RegistrationStep(sweep_swap, UNCHANGED sent)
    \/ RegistrationStep(sweep_next, UNCHANGED sent)

SpecRegistration == Init /\ [][NextRegistration]_vars

\* ------------------------- lazy registration against a ledger that recovers
HealStep(act, seen) ==
    act /\ seen /\ UNCHANGED <<ticks, ledger, sent, hits, swept>> /\ Bounded'

NextSelfHeal ==
    \/ \E key \in BaseKeys :
          HealStep(addAccount(key),
                   heal' = [heal EXCEPT !.requested = @ \cup {FullKey(key)}])
    \/ \E t \in Threads : HealStep(addAccountImpl_erase(t), UNCHANGED heal)
    \/ \E t \in Threads : HealStep(addAccountImpl_insert(t), UNCHANGED heal)
    \/ \E key \in FullKeys : \E r \in AccountRepliesFor(key) :
          /\ heal.recovered => GoodReply(key, r)
          /\ HealStep(addAccountResponse(key, r.status, r.body), UNCHANGED heal)
    \/ HealStep(sweep_swap, UNCHANGED heal)
    \/ HealStep(sweep_next, UNCHANGED heal)
    \/ Recover /\ UNCHANGED <<ticks, ledger, sent, hits, swept>>

SpecSelfHeal == Init /\ [][NextSelfHeal]_vars

\* ---------------------------- the hot path against what writes balances
HotPathStep(act, seen) ==
    act /\ seen /\ UNCHANGED <<ticks, sent, hits, heal, swept>> /\ Bounded'

NextHotPath ==
    \/ \E key \in BaseKeys, price \in Prices :
          HotPathStep(Bid(key, price), BidSeen(key, price))
    \/ \E key \in BaseKeys, reserved \in Prices, price \in Prices :
          HotPathStep(Win(key, reserved, price), BalanceSeen)
    \/ HotPathStep(reauthorize, BalanceSeen)
    \/ \E r \in ReauthorizeReplies :
          HotPathStep(reauthorizeResponse(r.status, r.parsable, r.records), BalanceSeen)
    \/ \E rec \in ReauthorizeRecords :
          HotPathStep(reauthorize_record(rec), BalanceSeen)
    \/ HotPathStep(spendUpdate, BalanceSeen)
    \/ \E r \in SpendUpdateReplies :
          HotPathStep(spendUpdateResponse(r.status, r.body), BalanceSeen)
    \/ \E key \in Names : \E r \in AccountRepliesFor(key) :
          HotPathStep(replaceAccountResponse(key, r.status, r.body), BalanceSeen)

SpecHotPath == Init /\ [][NextHotPath]_vars

\* ------------------------------- the response handlers, on requests in flight
\* The states in which responses are awaited: any store over the names, any set
\* of keys pending that are not in the store, at most one request of each kind
\* in flight per name, a protocol's flag set exactly when its request is in
\* flight, every thread idle.
Stores == UNION {[D -> {NewAccount(b) : b \in Balances}] : D \in SUBSET Names}

AtMostOneEach == [Names -> 0..1]

InitInFlight ==
    /\ type \in {ROUTER, POST_AUCTION}
    /\ accounts \in Stores
    /\ uninitializedAccounts \in SUBSET (FullKeys \ DOMAIN accounts)
    /\ \E re \in 0..1, su \in 0..1, reg \in AtMostOneEach, other \in AtMostOneEach :
          /\ reg[BareName] = 0
          /\ other[FullKey(<<"c2">>)] = 0
          /\ http = [reauthorize |-> IF type = ROUTER THEN re ELSE 0,
                     spendUpdate |-> IF type = POST_AUCTION THEN su ELSE 0,
                     addAccount |-> reg,
                     replaceAccount |-> IF type = POST_AUCTION THEN other ELSE NoRequests,
                     setRate |-> IF type = ROUTER THEN other ELSE NoRequests,
                     payloads |-> {AccountPayload(k) : k \in {n \in Names : reg[n] > 0}}]
    /\ reauthorizeInProgress = (http.reauthorize > 0)
    /\ reauthorizeSkipped \in (IF reauthorizeInProgress THEN 0..SkipLimit ELSE {0})
    /\ spendUpdateInProgress = (http.spendUpdate > 0)
    /\ spendUpdateSkipped \in (IF spendUpdateInProgress THEN 0..SkipLimit ELSE {0})
    /\ pc = [t \in Threads |-> "idle"]
    /\ implKey = [t \in Threads |-> <<>>]
    /\ tempUninitialized = {}
    /\ jsonAccounts = 0
    /\ mutex = "free"
    /\ ticks = [p \in Protocols |-> NoTicks]
    /\ ledger = NoLedger
    /\ sent = NoSent
    /\ hits = {}
    /\ heal = NoHeal
    /\ swept = NoSwept

ResponseStep(act, recorded) ==
    act /\ hits' = recorded /\ UNCHANGED <<ticks, ledger, sent, heal, swept>> /\ Bounded'

NextResponses ==
    \/ \E key \in FullKeys : \E r \in AccountRepliesFor(key) :
          ResponseStep(addAccountResponse(key, r.status, r.body),
                       addAccountHits(accounts, r.status, r.body))
    \/ \E key \in Names : \E r \in AccountRepliesFor(key) :
          ResponseStep(replaceAccountResponse(key, r.status, r.body),
                       replaceAccountHits(accounts, r.status, r.body))
    \/ \E key \in Names, status \in {StatusOK, 500} :
          ResponseStep(setRateResponse(key, status), setRateHits(status))
    \/ \E r \in SpendUpdateReplies :
          ResponseStep(spendUpdateResponse(r.status, r.body),
                       spendUpdateHits(r.status, r.body))
    \/ \E r \in ReauthorizeReplies :
          ResponseStep(reauthorizeResponse(r.status, r.parsable, r.records),
                       IF pc'["loop"] = "idle"
                       THEN reauthorizeHits(r.status, r.parsable) ELSE {})
    \/ \E rec \in ReauthorizeRecords :
          ResponseStep(reauthorize_record(rec),
                       IF pc'["loop"] = "idle"
                       THEN reauthorizeHits(StatusOK, TRUE) ELSE {})

SpecResponses == InitInFlight /\ [][NextResponses]_vars

\* ---------------------------- the three timers of init and what they trigger
\* one account is registered, the one the ledger's responses name
RolesStep(act, seen) ==
    act /\ seen /\ UNCHANGED <<ticks, ledger, hits, heal, swept>> /\ Bounded'

NextRoles ==
    \/ RolesStep(addAccount(BareName), UNCHANGED sent)
    \/ \E t \in Threads : RolesStep(addAccountImpl_erase(t), UNCHANGED sent)
    \/ \E t \in Threads : RolesStep(addAccountImpl_insert(t), InsertSeen(t))
    \/ \E key \in FullKeys : \E r \in AccountRepliesFor(key) :
          RolesStep(addAccountResponse(key, r.status, r.body), AnswerSeen(key))
    \/ RolesStep(sweep_swap, UNCHANGED sent)
    \/ RolesStep(sweep_next, UNCHANGED sent)
    \/ RolesStep(reauthorize, UNCHANGED sent)
    \/ \E r \in ReauthorizeReplies :
          RolesStep(reauthorizeResponse(r.status, r.parsable, r.records), UNCHANGED sent)
    \/ \E rec \in ReauthorizeRecords : RolesStep(reauthorize_record(rec), UNCHANGED sent)
    \/ RolesStep(spendUpdate, UNCHANGED sent)
    \/ \E r \in SpendUpdateReplies :
          RolesStep(spendUpdateResponse(r.status, r.body), UNCHANGED sent)
    \/ \E key \in Names : \E r \in AccountRepliesFor(key) :
          RolesStep(replaceAccountResponse(key, r.status, r.body), UNCHANGED sent)
    \/ \E key \in Names, status \in {StatusOK, 500} :
          RolesStep(setRateResponse(key, status), UNCHANGED sent)

SpecRoles == Init /\ [][NextRoles]_vars

\* ------------------- the sweep beside addAccount and a second writer of the store
\* one account is registered, the one the ledger's responses name
SweepStep(act, seen) ==
    act /\ seen /\ UNCHANGED <<ticks, ledger, sent, hits, heal>> /\ Bounded'

NextSweep ==
    \/ SweepStep(addAccount(BareName), UNCHANGED swept)
    \/ \E t \in Threads : SweepStep(addAccountImpl_erase(t), UNCHANGED swept)
    \/ \E t \in Threads : SweepStep(addAccountImpl_insert(t), InsertSwept(t))
    \/ \E key \in FullKeys : \E r \in AccountRepliesFor(key) :
          SweepStep(addAccountResponse(key, r.status, r.body), UNCHANGED swept)
    \/ SweepStep(sweep_swap, SwapSwept)
    \/ SweepStep(sweep_next, NextSwept)
    \/ SweepStep(reauthorize, UNCHANGED swept)
    \/ \E r \in ReauthorizeReplies :
          SweepStep(reauthorizeResponse(r.status, r.parsable, r.records), UNCHANGED swept)
    \/ \E rec \in ReauthorizeRecords : SweepStep(reauthorize_record(rec), UNCHANGED swept)
    \/ \E key \in Names, status \in {StatusOK, 500} :
          SweepStep(setRateResponse(key, status), UNCHANGED swept)

SpecSweep == Init /\ [][NextSweep]_vars

\* --------------------------------- the mutex around the posts, and the hot path
\* one account is registered, the one the ledger's responses name; a handler or
\* a sweep that takes its critical section in one step takes it when the mutex
\* is free; requests are explored up to MaxUnanswered unanswered per endpoint
Unanswered(h) ==
    /\ h.reauthorize <= MaxUnanswered
    /\ h.spendUpdate <= MaxUnanswered
    /\ \A n \in Names : h.addAccount[n] <= MaxUnanswered

MutexStep(act, seen) ==
    /\ act /\ seen /\ UNCHANGED <<ticks, sent, hits, heal, swept>>
    /\ Bounded' /\ Unanswered(http')

NextMutex ==
    \/ \E price \in Prices : MutexStep(Bid(BareName, price), BidSeen(BareName, price))
    \/ \E reserved \in Prices, price \in Prices :
          MutexStep(Win(BareName, reserved, price), BalanceSeen)
    \/ MutexStep(addAccount(BareName), UNCHANGED ledger)
    \/ \E t \in Threads : MutexStep(addAccountImpl_lock(t), UNCHANGED ledger)
    \/ \E t \in Threads : MutexStep(addAccountImpl_erasing(t), UNCHANGED ledger)
    \/ \E t \in Threads : MutexStep(addAccountImpl_inserting(t), UNCHANGED ledger)
    \/ \E t \in Threads : MutexStep(addAccountImpl_post(t), UNCHANGED ledger)
    \/ \E key \in FullKeys : \E r \in AccountRepliesFor(key) :
          /\ r.status = StatusOK => mutex = "free"
          /\ MutexStep(addAccountResponse(key, r.status, r.body), BalanceSeen)
    \/ mutex = "free" /\ MutexStep(sweep_swap, UNCHANGED ledger)
    \/ MutexStep(sweep_next, UNCHANGED ledger)
    \/ MutexStep(reauthorize_guard, UNCHANGED ledger)
    \/ MutexStep(spendUpdate_guard, UNCHANGED ledger)
    \/ \E p \in Protocols : MutexStep(payload_lock(p), UNCHANGED ledger)
    \/ \E p \in Protocols : MutexStep(payload_built(p), UNCHANGED ledger)
    \/ \E p \in Protocols : MutexStep(payload_post(p), UNCHANGED ledger)
    \/ \E r \in ReauthorizeReplies :
          MutexStep(reauthorizeResponse(r.status, r.parsable, r.records), UNCHANGED ledger)
    \/ \E rec \in ReauthorizeRecords : MutexStep(reauthorize_record(rec), BalanceSeen)
    \/ \E key \in Names, status \in {StatusOK, 500} :
          MutexStep(setRateResponse(key, status), UNCHANGED ledger)
    \/ \E r \in SpendUpdateReplies :
          MutexStep(spendUpdateResponse(r.status, r.body), UNCHANGED ledger)
    \/ \E key \in Names : \E r \in AccountRepliesFor(key) :
          /\ r.status = StatusOK => mutex = "free"
          /\ MutexStep(replaceAccountResponse(key, r.status, r.body), BalanceSeen)

SpecMutex == Init /\ [][NextMutex]_vars

\* ================================================================ properties
InProgress(p) == IF p = "reauthorize" THEN reauthorizeInProgress ELSE spendUpdateInProgress
Skipped(p) == IF p = "reauthorize" THEN reauthorizeSkipped ELSE spendUpdateSkipped

\* C2: for reauthorize and for spendUpdate, the tick that finds the in-progress
\* flag clear sets the flag, zeroes the skip counter and posts a request; of the
\* ticks that follow it while no response has been processed, the first three
\* post nothing and the fourth posts a request (the forced retry) and zeroes
\* the skip counter.
OverlapGuardForcesFourthTick ==
    \A p \in Protocols :
        LET t == ticks[p]
        IN  /\ t.since = 0 => t.issued /\ InProgress(p) /\ Skipped(p) = 0
            /\ t.since \in 1..3 => ~t.issued /\ InProgress(p) /\ Skipped(p) = t.since
            /\ t.since = 4 => t.issued /\ InProgress(p) /\ Skipped(p) = 0

\* the fourth tick behind an unanswered request has just posted a second one
ForcedRetryMade ==
    \E p \in Protocols : ticks[p].since = 4 /\ ticks[p].issued /\ http[p] = 2

\* C3 as stated: per protocol at most one request is unanswered, at most two
\* after a forced retry, and never more than two.
AtMostTwoInFlight ==
    \A p \in Protocols :
        /\ http[p] <= 2
        /\ ticks[p].forced = 0 => http[p] <= 1

\* C3: per protocol the unanswered requests are at most one more than the forced
\* retries made since the protocol last had nothing in flight; every fourth tick
\* behind a set flag is a forced retry, so a remote that never answers has three
\* requests unanswered after the ninth tick.
InFlightWithinForcedRetries ==
    \A p \in Protocols : http[p] <= 1 + ticks[p].forced

\* two forced retries in a row, nothing answered: three requests are in flight
ThreeInFlight ==
    \E p \in Protocols : http[p] = 3 /\ ticks[p].forced = 2 /\ ticks[p].since = 8

\* C4: among any five consecutive ticks of reauthorize (of spendUpdate) at least
\* one posts a request, whether or not any response arrives.
NoFiveDryTicks == \A p \in Protocols : ticks[p].dry < 5

\* nine ticks and no response: the protocol posted on the first, fifth and ninth,
\* then three more ticks posted nothing
StuckRemoteStillPosts ==
    \E p \in Protocols : ticks[p].since = 11 /\ ticks[p].dry = 3 /\ http[p] = 3

\* C1: while nothing but bids changes an account, the prices of the bids admitted
\* against it sum to at most the balance it started with, and its balance is
\* that balance less the sum; an admitted bid debits its price and leaves the
\* balance at zero or above, a refused bid changes nothing.
BidsWithinBalance ==
    [][/\ \A k \in FullKeys :
            /\ ledger'[k].admitted = 0 \/ ledger'[k].admitted <= ledger'[k].base
            /\ k \in DOMAIN accounts'
               => accounts'[k].balance = ledger'[k].base - ledger'[k].admitted
       /\ \A key \in BaseKeys, price \in Prices :
            Bid(key, price)
            => IF bid(accounts, key, price).canBid
               THEN /\ accounts'[FullKey(key)].balance
                        = accounts[FullKey(key)].balance - price
                    /\ accounts'[FullKey(key)].balance >= 0
               ELSE accounts' = accounts]_vars

\* bids were admitted up to the whole balance of an account that started with
\* MaxBalance; nothing is left
BalanceBidAway ==
    \E k \in FullKeys :
        /\ ledger[k].base = MaxBalance /\ ledger[k].admitted = MaxBalance
        /\ k \in DOMAIN accounts /\ accounts[k].balance = 0

\* C9 as stated: a record {name, balance, rate} of a reauthorize response sets
\* the balance of the account name + suffix, the key bid and win use, to the
\* returned balance and changes no other account.
ReauthorizeSetsSuffixedBalance ==
    [][\A rec \in ReauthorizeRecords :
          reauthorize_record(rec)
          => LET k == FullKey(rec.name)
             IN  /\ k \in DOMAIN accounts' /\ accounts'[k].balance = rec.balance
                 /\ \A o \in DOMAIN accounts' \ {k} :
                        o \in DOMAIN accounts /\ accounts'[o] = accounts[o]]_vars

\* key k waits for registration: it is in the pending set, or the sweep that is
\* running took it from there and has not put it back yet
Pending(k) ==
    \/ k \in uninitializedAccounts
    \/ k \in tempUninitialized
    \/ pc["loop"] = "insert" /\ implKey["loop"] = k

\* two addAccount calls for k got as far as posting, with no registration in
\* flight for k before them and no response for k processed since
CalledTwice(k) ==
    sent[k].before = 0 /\ sent[k].calls >= 2 /\ ~exists(accounts, k)

\* C5 as stated: after two addAccount calls for a key that is not in the store,
\* with no response processed in between, the key has its one entry in the pending
\* set and the unanswered registration requests for it are at most one, plus one
\* for every time a sweep sent it again.
TwoCallsOneRequest ==
    \A k \in FullKeys :
        CalledTwice(k) => Pending(k) /\ http.addAccount[k] <= 1 + sent[k].sweeps

\* C5: after two addAccount calls for a key that is not in the store, with no
\* response processed in between, the key has its one entry in the pending set
\* (or is held by the running sweep, which puts it back), and every call has
\* posted a request of its own: the unanswered registration requests for the key
\* are one per call plus one for every time a sweep sent it again.
TwoCallsTwoRequests ==
    \A k \in FullKeys :
        CalledTwice(k) => /\ Pending(k)
                          /\ http.addAccount[k] = sent[k].calls + sent[k].sweeps

\* two calls and one sweep, nothing answered: three requests for the key are in
\* flight and the key is pending
TwoCallsAndASweep ==
    \E k \in FullKeys :
        /\ CalledTwice(k) /\ sent[k].calls = 2 /\ sent[k].sweeps = 1
        /\ http.addAccount[k] = 3 /\ k \in uninitializedAccounts

\* key k is on its way into the store: pending or held by the sweep, in the hands
\* of a thread inside addAccountImpl, or named by a request that is in flight
OnItsWay(k) ==
    \/ Pending(k)
    \/ \E t \in Threads : pc[t] # "idle" /\ implKey[t] = k
    \/ http.addAccount[k] > 0

\* C6 as stated, its safety half: once the ledger has recovered, a key that was
\* given to addAccount and is not in the store yet is still on its way, so that
\* the sweeps and the answers to come register it; and a key that is in the
\* store and at rest is not pending.
RegistrationSelfHeals ==
    \A k \in heal.requested :
        heal.recovered =>
            /\ ~exists(accounts, k) => OnItsWay(k)
            /\ exists(accounts, k) /\ ~OnItsWay(k) => k \notin uninitializedAccounts

\* what no response handler may touch when the status is not 200
Untouched == UNCHANGED <<type, accounts, uninitializedAccounts, threadVars,
                         reauthorizeSkipped, spendUpdateSkipped>>

\* C7: processing a response whose status is not 200 - of a registration, a
\* replace-fetch, a setRate, a spendUpdate or a reauthorize - changes no account
\* record and no entry of the pending set; of the flags and counters it changes
\* at most the in-progress flag of its own protocol.
TransportFailureChangesNothing ==
    [][/\ (\E key \in FullKeys : addAccountResponse(key, 500, Malformed))
            => Untouched /\ UNCHANGED <<reauthorizeInProgress, spendUpdateInProgress>>
       /\ (\E key \in Names : replaceAccountResponse(key, 500, Malformed))
            => Untouched /\ UNCHANGED <<reauthorizeInProgress, spendUpdateInProgress>>
       /\ (\E key \in Names : setRateResponse(key, 500))
            => Untouched /\ UNCHANGED <<reauthorizeInProgress, spendUpdateInProgress>>
       /\ spendUpdateResponse(500, Unparsable)
            => Untouched /\ UNCHANGED reauthorizeInProgress
       /\ reauthorizeResponse(500, FALSE, 0)
            => Untouched /\ UNCHANGED spendUpdateInProgress]_vars

\* a registration has just failed with a status other than 200 while a key was
\* pending and the store held an account
RegistrationFailed ==
    /\ hits = {"addAccount.failure"}
    /\ uninitializedAccounts # {}
    /\ accounts # <<>>

\* C8 as stated: a registration response with status 200 and a malformed body
\* changes neither the store nor the pending set: a key that was pending stays
\* pending.
MalformedRegistrationKeepsPending ==
    [][\A key \in FullKeys :
          addAccountResponse(key, StatusOK, Malformed)
          => UNCHANGED <<accounts, uninitializedAccounts>>]_vars

\* the replace-fetches a processed spendUpdate response adds for name n
Reloads(status, body, n) ==
    IF status = StatusOK /\ body.parsable /\ n \in DOMAIN body.result
       /\ body.result[n] \notin {"no need", "success"}
    THEN 1 ELSE 0

\* C10: processing a spendUpdate response with status 200 posts exactly one
\* replace-fetch for every entry whose status is neither "no need" nor "success",
\* none for any other name, and changes no account record.
SpendUpdateReloadsOutOfSync ==
    [][\A r \in SpendUpdateReplies :
          r.status = StatusOK /\ spendUpdateResponse(r.status, r.body)
          => /\ \A n \in Names : http'.replaceAccount[n]
                                   = http.replaceAccount[n] + Reloads(r.status, r.body, n)
             /\ accounts' = accounts]_vars

\* a response has been processed that reported one name out of sync and not the
\* other: one replace-fetch is in flight for the first, none for the second
OneReloadInFlight ==
    /\ type = POST_AUCTION
    /\ http.spendUpdate = 0 /\ ~spendUpdateInProgress
    /\ http.replaceAccount[FullKey(BareName)] = 1
    /\ http.replaceAccount[BareName] = 0

\* C11: an instance with the router role never has a spendUpdate request issued
\* and its spendUpdate timer never fires; an instance with the post-auction role
\* never has a reauthorize or a setRate request issued and its reauthorize timer
\* never fires; in both roles the registration sweep can start whenever the
\* message loop is idle.
RoleGating ==
    /\ type = ROUTER
       => /\ http.spendUpdate = 0 /\ ~spendUpdateInProgress
          /\ ~ENABLED spendUpdate
    /\ type = POST_AUCTION
       => /\ http.reauthorize = 0 /\ ~reauthorizeInProgress
          /\ \A n \in Names : http.setRate[n] = 0
          /\ ~ENABLED reauthorize
    /\ pc["loop"] = "idle" => ENABLED sweep_swap

\* a post-auction instance whose sweep has sent a registration again while a
\* spendUpdate request and a replace-fetch are in flight
PostAuctionSweeps ==
    /\ type = POST_AUCTION
    /\ \E k \in FullKeys : sent[k].sweeps >= 1
    /\ http.spendUpdate >= 1
    /\ \E n \in Names : http.replaceAccount[n] >= 1

\* C13: processing a response of reauthorize (of spendUpdate), whatever its
\* status and body, leaves the protocol's in-progress flag false, and the tick
\* that follows it with no other tick in between posts a request, sets the flag
\* and leaves the skip counter at zero.
ResponseClearsFlag ==
    [][/\ \A r \in ReauthorizeReplies :
            reauthorizeResponse(r.status, r.parsable, r.records)
            => ~reauthorizeInProgress'
       /\ \A r \in SpendUpdateReplies :
            spendUpdateResponse(r.status, r.body) => ~spendUpdateInProgress'
       /\ \A p \in Protocols : ticks'[p].since = -1 => ~InProgress(p)'
       /\ reauthorize /\ ticks["reauthorize"].since = -1
            => /\ http'.reauthorize = http.reauthorize + 1
               /\ reauthorizeInProgress' /\ reauthorizeSkipped' = 0
       /\ spendUpdate /\ ticks["spendUpdate"].since = -1
            => /\ http'.spendUpdate = http.spendUpdate + 1
               /\ spendUpdateInProgress' /\ spendUpdateSkipped' = 0]_vars

\* after a forced retry one of the two requests was answered, and the next tick
\* found the flag clear and posted while the other request was still in flight
TickAfterResponsePosts ==
    \E p \in Protocols :
        /\ ticks[p].since = 0 /\ ticks[p].forced = 1 /\ ticks[p].issued
        /\ http[p] = 2 /\ Skipped(p) = 0

\* no thread is inside addAccountImpl and no sweep is running
AtRest == \A t \in Threads : pc[t] = "idle"

\* C14 as stated: once the calls of addAccount, the sweeps and the response
\* handlers that ran have completed, no key is in the store and in the pending
\* set at the same time.
StoredKeysAreNotPending ==
    AtRest => \A k \in FullKeys : ~(exists(accounts, k) /\ k \in uninitializedAccounts)

\* C15 as stated: the sweep takes the whole pending set and leaves it empty in one
\* step; when it ends it has posted a registration for exactly the taken keys it
\* did not find in the store, each of them is pending again, and every key a
\* call of addAccount put into the pending set while the sweep ran is still there.
SweepResendsAndKeepsAdded ==
    [][/\ sweep_swap => /\ tempUninitialized' = uninitializedAccounts
                         /\ uninitializedAccounts' = {}
       /\ Sweeping /\ pc'["loop"] = "idle"
            => /\ swept'.resent = swept'.taken \ swept'.found
               /\ swept'.resent \subseteq uninitializedAccounts'
               /\ swept'.added \subseteq uninitializedAccounts']_vars

\* C16: addAccount(key) looks key + suffix up in the store.  If it is there, the
\* call posts nothing, leaves the store alone and leaves the key out of the
\* pending set.  If it is not, the call puts key + suffix into the pending set
\* and posts exactly one registration, whose body carries the role of the
\* instance ("Router" or "PostAuction").
AddAccountRegistersOnce ==
    [][/\ \A key \in BaseKeys :
            addAccount(key)
            => /\ implKey'["caller"] = key \o <<accountSuffix>>
               /\ pc'["caller"] = IF key \o <<accountSuffix>> \in DOMAIN accounts
                                  THEN "erase" ELSE "insert"
               /\ UNCHANGED <<accounts, uninitializedAccounts, http>>
       /\ addAccountImpl_erase("caller")
            => /\ UNCHANGED <<accounts, http>>
               /\ implKey["caller"] \notin uninitializedAccounts'
       /\ addAccountImpl_insert("caller")
            => LET k == implKey["caller"]
               IN  /\ k \in uninitializedAccounts' /\ accounts' = accounts
                   /\ http'.addAccount = [http.addAccount EXCEPT ![k] = @ + 1]
                   /\ \A q \in http'.payloads :
                        q.accountName = k
                        => q.accountType = (IF type = ROUTER THEN "Router"
                                            ELSE "PostAuction")
                   /\ \E q \in http'.payloads : q.accountName = k
                   /\ \A e \in {"reauthorize", "spendUpdate", "replaceAccount", "setRate"} :
                        http'[e] = http[e]]_vars

\* a call of addAccount on a post-auction instance has posted the one
\* registration in flight, tagged "PostAuction", and the key is pending
RegistrationPostedWithRole ==
    \E k \in FullKeys :
        /\ type = POST_AUCTION /\ pc["caller"] = "idle"
        /\ sent[k].calls = 1 /\ http.addAccount[k] = 1
        /\ k \in uninitializedAccounts
        /\ [accountName |-> k, accountType |-> "PostAuction"] \in http.payloads

\* C17: for a record of a successful reauthorize response one setRate request is
\* posted, for the name of the record, if its rate is greater than the spend
\* rate of the instance, and none otherwise; whether it is posted or not makes no
\* difference to the store, the pending set, the flags and the skip counters, and
\* processing the response of a setRate, with status 200 or not, changes none of
\* them.
SetRateOnlyAboveSpendRate ==
    [][/\ \A rec \in ReauthorizeRecords :
            reauthorize_record(rec)
            => /\ \A n \in Names :
                    http'.setRate[n] = http.setRate[n]
                        + (IF n = rec.name /\ rec.rate > DefaultSpendRate THEN 1 ELSE 0)
               /\ \A e \in {"reauthorize", "spendUpdate", "replaceAccount", "addAccount"} :
                    http'[e] = http[e]
               /\ accounts' = accumulateBalance(accounts, rec.name, rec.balance).accounts
               /\ UNCHANGED <<uninitializedAccounts, guardVars>>
       /\ \A n \in Names, status \in {StatusOK, 500} :
            setRateResponse(n, status)
            => UNCHANGED <<accounts, uninitializedAccounts, guardVars>>]_vars

\* a router instance has a setRate request in flight for an account it holds
\* and none for another account it holds
SetRateInFlight ==
    /\ type = ROUTER
    /\ \E n, m \in DOMAIN accounts :
          n # m /\ http.setRate[n] = 1 /\ http.setRate[m] = 0

\* C18: processing the response of a replace-fetch for an account, status 200
\* and a well-formed record, leaves that account with exactly the returned
\* balance, creating it if it was absent, and leaves every other account as it
\* was; a record of a reauthorize response likewise leaves the account it is
\* applied to with the returned balance.  No handler looks at which request it
\* answers, so of two responses for one account the one processed last decides.
LastResponseWins ==
    [][/\ \A key \in Names : \A r \in AccountRepliesFor(key) :
            r.status = StatusOK /\ r.body.wellFormed
            /\ replaceAccountResponse(key, r.status, r.body)
            => /\ key \in DOMAIN accounts'
               /\ accounts'[key].balance = r.body.balance
               /\ DOMAIN accounts' = DOMAIN accounts \cup {key}
               /\ \A o \in DOMAIN accounts \ {key} : accounts'[o] = accounts[o]
       /\ \A rec \in ReauthorizeRecords :
            reauthorize_record(rec)
            => /\ rec.name \in DOMAIN accounts'
               /\ accounts'[rec.name].balance = rec.balance
               /\ DOMAIN accounts' = DOMAIN accounts \cup {rec.name}
               /\ \A o \in DOMAIN accounts \ {rec.name} : accounts'[o] = accounts[o]]_vars

\* a post-auction instance holds an account that a replace-fetch wrote with the
\* balance MaxBalance, bids have been admitted against it since, and the next
\* replace-fetch for it is in flight
ReplacedAndFetchingAgain ==
    \E k \in FullKeys :
        /\ type = POST_AUCTION /\ k \in DOMAIN accounts
        /\ ledger[k].base = MaxBalance /\ ledger[k].admitted > 0
        /\ http.replaceAccount[k] = 1

\* C19: whenever the in-progress flag of reauthorize (of spendUpdate) is set, at
\* least one request of that protocol is in flight; and every response of the
\* protocol that is processed clears the flag, so a flag cannot stay set through
\* the answers to the requests in flight.
FlagSetOnlyWithRequestInFlight ==
    [][/\ \A p \in Protocols : InProgress(p)' => http'[p] >= 1
       /\ \A p \in Protocols : http'[p] < http[p] => ~InProgress(p)']_vars

\* a request is in flight while the flag is clear, and the flag was set before
\* with two requests in flight: one of them has been answered
RequestInFlightFlagClear ==
    \E p \in Protocols :
        /\ ~InProgress(p) /\ http[p] = 1
        /\ ticks[p].forced = 1 /\ ticks[p].since = -1

\* C20: after every step reauthorizeSkipped and spendUpdateSkipped are in 0..3.
\* A tick of a protocol that posts a request leaves its counter at zero; a tick
\* that posts none found the flag set and adds one to its counter; nothing else
\* changes a counter: no response, and no tick of the other protocol.
SkipCountersInRange ==
    [][/\ reauthorizeSkipped' \in 0..SkipLimit /\ spendUpdateSkipped' \in 0..SkipLimit
       /\ reauthorize
            => /\ IF http'.reauthorize = http.reauthorize + 1
                  THEN reauthorizeSkipped' = 0
                  ELSE /\ reauthorizeInProgress /\ http' = http
                       /\ reauthorizeSkipped' = reauthorizeSkipped + 1
               /\ UNCHANGED spendUpdateSkipped
       /\ spendUpdate
            => /\ IF http'.spendUpdate = http.spendUpdate + 1
                  THEN spendUpdateSkipped' = 0
                  ELSE /\ spendUpdateInProgress /\ http' = http
                       /\ spendUpdateSkipped' = spendUpdateSkipped + 1
               /\ UNCHANGED reauthorizeSkipped
       /\ reauthorizeSkipped' # reauthorizeSkipped => reauthorize
       /\ spendUpdateSkipped' # spendUpdateSkipped => spendUpdate]_vars

\* three ticks in a row have been skipped behind a request that is in flight
ThreeSkipsCounted ==
    \E p \in Protocols :
        Skipped(p) = SkipLimit /\ InProgress(p) /\ ticks[p].dry = 3 /\ http[p] = 1

\* the step hands a request to httpClient
Issued ==
    \/ http'.reauthorize > http.reauthorize
    \/ http'.spendUpdate > http.spendUpdate
    \/ \E n \in Names : \/ http'.addAccount[n] > http.addAccount[n]
                         \/ http'.replaceAccount[n] > http.replaceAccount[n]
                         \/ http'.setRate[n] > http.setRate[n]

\* the thread whose step it is: a caller leaving addAccountImpl's post, or the loop
Issuer == IF pc["caller"] = "post" /\ pc'["caller"] # "post" THEN "caller" ELSE "loop"

\* C12: the thread that issues a request (registration, replace-fetch,
\* spend-update, reauthorize or setRate) does not hold the mutex when it issues
\* it.  bid and win can be called in every state, whoever holds the mutex and
\* whatever is unanswered; a call of bid or win issues no request and leaves
\* every thread where it is.
MutexNotHeldAcrossNetworkCall ==
    [][/\ Issued => mutex # Issuer /\ mutex' # Issuer
       /\ ENABLED Bid(BareName, 1)
       /\ ENABLED Win(BareName, 1, 1)
       /\ \A price \in Prices :
             Bid(BareName, price) => http' = http /\ pc' = pc /\ mutex' = mutex
       /\ \A reserved \in Prices, price \in Prices :
             Win(BareName, reserved, price) => http' = http /\ pc' = pc /\ mutex' = mutex]_vars

\* a bid has been admitted, the reauthorize tick is about to post behind an
\* unanswered reauthorize request, and a caller of addAccount holds the mutex
PostsBesideTheMutex ==
    /\ pc["loop"] = AtPost("reauthorize")
    /\ http.reauthorize >= 1
    /\ mutex = "caller"
    /\ ledger[FullKey(BareName)].admitted >= 1

====
